---- MODULE Spec2Model ----
(***************************************************************************)
(* Model of process_excel_data.py: the resilient name resolution           *)
(* (normalize_text_for_matching, get_resilient_column_names,               *)
(* find_flag_columns_for_aggregation, find_resilient_sheet_name) and the   *)
(* run of process_excel against the intermediate table (overwritten each   *)
(* run) and the history table (appended to when the outcome changed).      *)
(*                                                                         *)
(* A text is a sequence of characters, a character a one-character string  *)
(* (or a name such as "E_ACUTE" or "BACKTICK" for a character that is not  *)
(* written as itself here).                                                *)
(***************************************************************************)
EXTENDS Integers, Sequences, FiniteSets, TLC

\* ------------------------------------------------------------------ bounds
\* Longest header list drawn for the resolvers.
MaxCols == 2
\* Most rows of a sheet.
MaxRows == 2
\* Most runs of process_excel in one behaviour over every workbook.
MaxRuns == 2
\* Most runs in one behaviour over the workbooks that exercise the history
\* table.
MaxHistoryRuns == 3
\* Last clock minute.
MaxClock == 1

\* ------------------------------------------------------------------ text
\* None, as a value no text equals: "None" is not a character.
None == <<"None">>

Upper == <<"A","B","C","D","E","F","G","H","I","J","K","L","M",
           "N","O","P","Q","R","S","T","U","V","W","X","Y","Z">>
Lower == <<"a","b","c","d","e","f","g","h","i","j","k","l","m",
           "n","o","p","q","r","s","t","u","v","w","x","y","z">>

\* unicodedata.normalize('NFKD', c).encode('ascii', 'ignore'): an accented
\* letter decomposes into its base letter and a combining mark, and the mark
\* is dropped; the no-break space decomposes into a space; a character with
\* no ASCII decomposition is dropped.
nfkd_ascii_char(c) ==
    CASE c = "E_ACUTE" -> <<"e">>
      [] c = "O_CIRC"  -> <<"o">>
      [] c = "NBSP"    -> <<" ">>
      [] c = "EURO"    -> <<>>
      [] OTHER         -> <<c>>

RECURSIVE nfkd_ascii(_)
nfkd_ascii(text) ==
    IF text = <<>> THEN <<>>
    ELSE nfkd_ascii_char(Head(text)) \o nfkd_ascii(Tail(text))

\* str.lower() of one ASCII character.
lower_char(c) ==
    IF \E i \in 1..Len(Upper) : Upper[i] = c
    THEN Lower[CHOOSE i \in 1..Len(Upper) : Upper[i] = c]
    ELSE c

lower(text) == [i \in 1..Len(text) |-> lower_char(text[i])]

\* The characters \s matches in an ASCII text.
Whitespace == {" ", "\t", "\n"}

\* The same without the lower-casing.
normalize_keeps_case(text) ==
    IF text = <<>> THEN <<>>
    ELSE SelectSeq(nfkd_ascii(text), LAMBDA c : c \notin Whitespace)

\* normalize_text_for_matching: "" for an empty text; otherwise NFKD, ASCII
\* only, lower case, every whitespace character removed.
normalize_text_for_matching(text) ==
    IF text = <<>> THEN <<>>
    ELSE SelectSeq(lower(nfkd_ascii(text)), LAMBDA c : c \notin Whitespace)

\* normalize_for_substring_search: NFKD, ASCII only, lower case, and only
\* the space character removed (.replace(" ", "")).
normalize_for_substring_search(text) ==
    SelectSeq(lower(nfkd_ascii(text)), LAMBDA c : c # " ")

\* str.startswith
startswith(s, prefix) ==
    Len(prefix) <= Len(s) /\ SubSeq(s, 1, Len(prefix)) = prefix

\* the substring test: sub in s
contains(s, sub) ==
    \E i \in 1..(Len(s) + 1 - Len(sub)) : SubSeq(s, i, i + Len(sub) - 1) = sub

\* x in list
InList(x, list) == \E i \in 1..Len(list) : list[i] = x

\* ------------------------------------------------------------------ names
\* The target vocabulary of the program.
T_column_a == <<"c","o","l","u","m","n","_","a">>
T_column_b == <<"c","o","l","u","m","n","_","b">>
T_flag     == <<"f","l","a","g">>
T_marker1  == <<"m","a","r","k","e","r","1">>
T_marker2  == <<"m","a","r","k","e","r","2">>
T_sheet    == <<"s","h","e","e","t","_","p","r","e","f","i","x","_","t","o","_",
                "f","i","n","d">>

\* Headers of the sheets drawn as inputs.
H_Column_A_Name == <<"C","o","l","u","m","n","_","A"," ","N","a","m","e">>
H_COLUMN_A2     == <<"C","O","L","U","M","N","_","A","2">>
H_Column_A_acc  == <<"C","O_CIRC","l","u","m","n","_"," ","a">>
H_ColumnSpA     == <<"C","o","l","u","m","n"," ","A"," ","N","a","m","e">>
H_Column_B_code == <<"C","o","l","u","m","n","_","B"," ","(","c","o","d","e",")">>
H_ColumnSpB     == <<"C","o","l","u","m","n"," ","B"," ","(","c","o","d","e",")">>
H_Column_b_dot1 == <<"C","o","l","u","m","n","_","b",".","1">>
H_Flag_Marker1  == <<"F","l","a","g"," ","M","a","r","k","e","r","1">>
H_Flag_Marker1X == <<"F","l","a","g"," ","M","a","r","k","e","r","1"," ","X">>
H_Flag_Marker2Y == <<"F","l","a","g"," ","M","a","r","k","e","r","2"," ","Y">>
H_Flag_TabMark  == <<"F","l","a","g"," ","M","a","r","\t","k","e","r","1">>
H_Flag_old      == <<"F","l","a","g"," ","(","o","l","d",")">>
H_Marker1_Flag  == <<"M","a","r","k","e","r","1"," ","F","l","a","g">>

\* Sheet names of the workbooks drawn as inputs.
S_March  == <<"S","h","e","e","t","_","P","r","e","f","i","x","_","T","o","_",
              "F","i","n","d"," ","-"," ","M","a","r","c","h">>
S_Summary == <<"S","u","m","m","a","r","y">>
S_Sheet1  == <<"S","h","e","e","t","1">>

\* -------------------------------------------------------------- resolvers
\* get_resilient_column_names, lines 79-83: the scan of the headers for one
\* normalized prefix, appending every header that starts with it and is not
\* selected yet.
RECURSIVE scan_actual_columns(_, _, _)
scan_actual_columns(actual_columns, norm_prefix, selected_original_cols) ==
    IF actual_columns = <<>> THEN selected_original_cols
    ELSE LET actual_col_original == Head(actual_columns)
             normalized_actual_col == normalize_text_for_matching(actual_col_original)
             sel == IF /\ startswith(normalized_actual_col, norm_prefix)
                       /\ ~InList(actual_col_original, selected_original_cols)
                    THEN Append(selected_original_cols, actual_col_original)
                    ELSE selected_original_cols
         IN  scan_actual_columns(Tail(actual_columns), norm_prefix, sel)

\* lines 78-83: the loop over the normalized prefixes.
RECURSIVE scan_prefixes(_, _, _)
scan_prefixes(normalized_target_prefixes, actual_columns, selected_original_cols) ==
    IF normalized_target_prefixes = <<>> THEN selected_original_cols
    ELSE scan_prefixes(Tail(normalized_target_prefixes), actual_columns,
             scan_actual_columns(actual_columns, Head(normalized_target_prefixes),
                                 selected_original_cols))

\* The same loop leaving the scan of the headers at the first match of a prefix.
RECURSIVE first_match_only(_, _)
first_match_only(actual_columns, target_prefixes_raw) ==
    IF target_prefixes_raw = <<>> THEN <<>>
    ELSE LET p == normalize_text_for_matching(Head(target_prefixes_raw))
             hit == {i \in 1..Len(actual_columns) :
                       startswith(normalize_text_for_matching(actual_columns[i]), p)}
             rest == first_match_only(actual_columns, Tail(target_prefixes_raw))
         IN  IF hit = {} THEN rest
             ELSE LET c == actual_columns[CHOOSE i \in hit : \A j \in hit : i <= j]
                  IN  <<c>> \o SelectSeq(rest, LAMBDA x : x # c)

get_resilient_column_names(actual_columns, target_prefixes_raw) ==
    scan_prefixes([i \in 1..Len(target_prefixes_raw) |->
                      normalize_text_for_matching(target_prefixes_raw[i])],
                  actual_columns, <<>>)

\* find_flag_columns_for_aggregation, lines 111-117: the loop over the
\* headers; col_flag_name is set once, while it is still None or "".
RECURSIVE scan_flag_columns(_, _)
scan_flag_columns(actual_columns, col_flag_name) ==
    IF actual_columns = <<>> THEN col_flag_name
    ELSE LET col_name == Head(actual_columns)
             norm_col_full == normalize_text_for_matching(col_name)
             norm_col_substring == normalize_for_substring_search(col_name)
             norm_marker1 == normalize_for_substring_search(T_marker1)
             norm_marker2 == normalize_for_substring_search(T_marker2)
             norm_flag_prefix == normalize_text_for_matching(T_flag)
             name == IF /\ startswith(norm_col_full, norm_flag_prefix)
                        /\ \/ contains(norm_col_substring, norm_marker1)
                           \/ contains(norm_col_substring, norm_marker2)
                        /\ col_flag_name \in {None, <<>>}
                     THEN col_name
                     ELSE col_flag_name
         IN  scan_flag_columns(Tail(actual_columns), name)

\* The same loop without the "not col_flag_name" test: the last qualifying
\* header wins.
RECURSIVE last_flag_column(_)
last_flag_column(actual_columns) ==
    IF actual_columns = <<>> THEN None
    ELSE LET rest == last_flag_column(Tail(actual_columns))
             h == Head(actual_columns)
         IN  IF rest # None THEN rest
             ELSE IF /\ startswith(normalize_text_for_matching(h), T_flag)
                     /\ \/ contains(normalize_for_substring_search(h), T_marker1)
                        \/ contains(normalize_for_substring_search(h), T_marker2)
                  THEN h ELSE None

find_flag_columns_for_aggregation(actual_columns) ==
    scan_flag_columns(actual_columns, None)

\* find_resilient_sheet_name, lines 62-70: the first sheet name, in workbook
\* order, whose normalized form starts with the normalized prefix; None
\* stands for the ValueError raised when there is none.
RECURSIVE scan_sheet_names(_, _)
scan_sheet_names(available_sheet_names, normalized_target_prefix) ==
    IF available_sheet_names = <<>> THEN None
    ELSE LET sheet_name_original == Head(available_sheet_names)
             normalized_current_sheet == normalize_text_for_matching(sheet_name_original)
         IN  IF startswith(normalized_current_sheet, normalized_target_prefix)
             THEN sheet_name_original
             ELSE scan_sheet_names(Tail(available_sheet_names), normalized_target_prefix)

find_resilient_sheet_name(available_sheet_names, target_prefix_raw) ==
    scan_sheet_names(available_sheet_names, normalize_text_for_matching(target_prefix_raw))

\* quote_column_if_needed: backticks around a name holding whitespace, a
\* parenthesis or a hyphen, unless it already starts and ends with one.
QuoteChars == Whitespace \cup {"(", ")", "-"}

quote_column_if_needed(col_name) ==
    IF /\ \E i \in 1..Len(col_name) : col_name[i] \in QuoteChars
       /\ ~(col_name[1] = "BACKTICK" /\ col_name[Len(col_name)] = "BACKTICK")
    THEN <<"BACKTICK">> \o col_name \o <<"BACKTICK">>
    ELSE col_name

\* F.col(ref) resolved against the columns of a frame: the position of the
\* column, 0 when the engine cannot resolve the reference. A reference in
\* backticks names a column literally; without them a dot is read as a field
\* access, which no column of a flat sheet has.
F_col(ref, columns) ==
    LET quoted == Len(ref) >= 2 /\ ref[1] = "BACKTICK" /\ ref[Len(ref)] = "BACKTICK"
        name == IF quoted THEN SubSeq(ref, 2, Len(ref) - 1) ELSE ref
        hit == {i \in 1..Len(columns) : columns[i] = name}
    IN  IF hit = {} \/ (~quoted /\ \E i \in 1..Len(name) : name[i] = ".")
        THEN 0
        ELSE CHOOSE i \in hit : \A j \in hit : i <= j

\* --------------------------------------------------------------- the data
\* A cell is a text or Null; "NULL" is not a character, so no text equals it.
Null == <<"NULL">>

C_A1     == <<"A","1">>
C_SpA1   == <<" ","A","1"," ">>
C_Spaces == <<" "," "," ">>
C_B1     == <<"B","1">>
C_x      == <<"x">>

\* F.trim: the spaces at both ends removed.
RECURSIVE ltrim(_)
ltrim(text) == IF text # <<>> /\ Head(text) = " " THEN ltrim(Tail(text)) ELSE text

RECURSIVE rtrim(_)
rtrim(text) ==
    IF text # <<>> /\ text[Len(text)] = " "
    THEN rtrim(SubSeq(text, 1, Len(text) - 1))
    ELSE text

trim(text) == rtrim(ltrim(text))

\* os.path.basename of a path given as its components.
basename(path) == path[Len(path)]

SeqsUpTo(S, n) == UNION {[1..k -> S] : k \in 0..n}

Min(a, b) == IF a <= b THEN a ELSE b

Sheet(name, columns, rows) == [name |-> name, columns |-> columns, rows |-> rows]

Book(path, exists, sheets) == [path |-> path, exists |-> exists, sheets |-> sheets]

\* ------------------------------------------------------------ process_excel
\* The filter with the test on the trimmed value left out.
row_filter_not_null(cell) == cell # Null

\* lines 169-172: isNotNull() & (trim(col) != ""), on one cell of column_a.
row_filter(cell) == cell # Null /\ trim(cell) # <<>>

\* A run that raised before the first table write.
Failed(why) ==
    [failure |-> why, df_spark |-> <<>>, flag |-> 0,
     df_for_hive_intermediate |-> [columns |-> <<>>, rows |-> <<>>]]

\* process_excel, lines 131-195: the sheet, the required columns, the row
\* filter on column_a, the flag column and the projection, up to the frame
\* that is written to the intermediate table.
process_excel_ingest(wb) ==
    LET names == [i \in 1..Len(wb.sheets) |-> wb.sheets[i].name]
        excel_sheet_name == find_resilient_sheet_name(names, T_sheet)
    IN
    IF ~wb.exists THEN Failed("SourceNotFound")
    ELSE IF excel_sheet_name = None THEN Failed("SheetNotMatched")
    ELSE
    LET sheet == wb.sheets[CHOOSE i \in 1..Len(names) :
                     /\ names[i] = excel_sheet_name
                     /\ \A j \in 1..Len(names) : names[j] = excel_sheet_name => i <= j]
        columns == sheet.columns
        column_a_candidates == get_resilient_column_names(columns, <<T_column_a>>)
    IN
    IF column_a_candidates = <<>> THEN Failed("ColumnNotMatched")
    ELSE
    LET actual_column_a_for_filter == column_a_candidates[1]
        a == F_col(quote_column_if_needed(actual_column_a_for_filter), columns)
    IN
    IF a = 0 THEN Failed("AnalysisException")
    ELSE
    LET df_spark == SelectSeq(sheet.rows, LAMBDA r : row_filter(r[a]))
        column_b_candidates == get_resilient_column_names(columns, <<T_column_b>>)
    IN
    IF column_b_candidates = <<>> THEN Failed("ColumnNotMatched")
    ELSE
    LET actual_column_b == column_b_candidates[1]
        actual_flag_col == find_flag_columns_for_aggregation(columns)
        has_flag == actual_flag_col \notin {None, <<>>}
        b == F_col(quote_column_if_needed(actual_column_b), columns)
        f == IF has_flag THEN F_col(quote_column_if_needed(actual_flag_col), columns)
             ELSE 0
    IN
    IF b = 0 \/ (has_flag /\ f = 0) THEN Failed("AnalysisException")
    ELSE [failure |-> "", df_spark |-> df_spark, flag |-> f,
          df_for_hive_intermediate |->
              [columns |-> IF has_flag THEN <<"column_a", "column_b", "flag">>
                           ELSE <<"column_a", "column_b">>,
               rows |-> [i \in 1..Len(df_spark) |->
                           IF has_flag
                           THEN <<df_spark[i][a], df_spark[i][b], df_spark[i][f]>>
                           ELSE <<df_spark[i][a], df_spark[i][b]>>]]]

\* F.count(col) over the rows of a frame: the rows whose cell is not null.
RECURSIVE F_count(_, _)
F_count(rows, col) ==
    IF rows = <<>> THEN 0
    ELSE (IF Head(rows)[col] # Null THEN 1 ELSE 0) + F_count(Tail(rows), col)

\* lines 206-213
flagged_line_count(df_spark, flag) ==
    IF Len(df_spark) > 0 /\ flag # 0 THEN F_count(df_spark, flag) ELSE 0

\* write.mode('overwrite').saveAsTable with the old contents kept.
saveAsTable_overwrite_keeps(table, df) ==
    IF table.columns = df.columns
    THEN [columns |-> df.columns, rows |-> table.rows \o df.rows]
    ELSE df

\* line 198: write.mode('overwrite').saveAsTable(table_hive_inter) replaces
\* the schema and the rows of the table.
saveAsTable_overwrite(table, df) == df

\* write.mode('append').saveAsTable replacing what the table held.
saveAsTable_append_replaces(table, record) == <<record>>

\* line 258: write.mode('append').saveAsTable(target_hive_table)
saveAsTable_append(table, record) == Append(table, record)

\* The comparison on the filename alone.
record_changed_by_filename(latest_history_row, excel_file_name_only, count) ==
    IF latest_history_row # <<>>
    THEN ~(excel_file_name_only = latest_history_row[1].filename)
    ELSE TRUE

\* lines 231, 240-249: last_record_changed, from the rows the history query
\* returned (none or one).
last_record_changed(latest_history_row, excel_file_name_only, count) ==
    IF latest_history_row # <<>>
    THEN ~(/\ excel_file_name_only = latest_history_row[1].filename
           /\ count = latest_history_row[1].flagged_line_count)
    ELSE TRUE

\* lines 233-238: the rows ORDER BY processing_timestamp DESC LIMIT 1 may
\* return: none for an empty table, otherwise any one record of the greatest
\* timestamp (the order among equal timestamps is not defined), with the two
\* selected fields.
latest_history_rows(table) ==
    IF table = <<>> THEN {<<>>}
    ELSE {<<[filename |-> table[i].filename,
             flagged_line_count |-> table[i].flagged_line_count]>> :
            i \in {k \in 1..Len(table) :
                     \A j \in 1..Len(table) :
                        table[j].processing_timestamp <= table[k].processing_timestamp}}

\* ---------------------------------------------------------------- inputs
HeaderPool ==
    {H_Column_A_Name, H_COLUMN_A2, H_Column_A_acc, H_ColumnSpA, H_Column_B_code,
     H_ColumnSpB, H_Column_b_dot1, H_Flag_Marker1, H_Flag_Marker1X,
     H_Flag_Marker2Y, H_Flag_TabMark, H_Flag_old, H_Marker1_Flag}

PrefixLists ==
    {<<T_column_a>>, <<T_column_b>>, <<T_column_a, T_column_b>>,
     <<T_flag, T_column_a>>, <<<<"c","o","l">>, T_column_a>>, <<>>}

\* The header rows of the sheets that resolve: the plain one; one whose
\* first column_a match is not its first column and whose flag column comes
\* first; one with an accented column_a and no flag column (a tab splits the
\* marker).
HeaderLists ==
    <<<<H_Column_A_Name, H_Column_B_code, H_Flag_Marker1>>,
      <<H_Flag_Marker2Y, H_Column_B_code, H_COLUMN_A2, H_Column_A_Name>>,
      <<H_Column_A_acc, H_Column_B_code, H_Flag_TabMark>>>>

\* The rows of a sheet, each cut to the width of its header row.
RowPool ==
    <<<<C_A1, C_B1, C_x, C_A1>>, <<C_Spaces, C_B1, C_x, C_Spaces>>,
      <<C_SpA1, Null, Null, C_B1>>, <<Null, C_B1, C_A1, Null>>>>

Cut(rows, columns) == [i \in 1..Len(rows) |-> SubSeq(rows[i], 1, Len(columns))]

RECURSIVE Pow(_, _)
Pow(b, n) == IF n = 0 THEN 1 ELSE b * Pow(b, n - 1)

\* Every list of n rows of the pool, numbered.
RowListsOfLen(n) ==
    [k \in 1..Pow(Len(RowPool), n) |->
        [i \in 1..n |->
            RowPool[(((k - 1) \div Pow(Len(RowPool), i - 1)) % Len(RowPool)) + 1]]]

RECURSIVE RowListsUpTo(_)
RowListsUpTo(n) ==
    IF n = 0 THEN <<<<>>>> ELSE RowListsUpTo(n - 1) \o RowListsOfLen(n)

RowLists == RowListsUpTo(MaxRows)

\* The three rows of the end-to-end scenario: one with a blank column_a.
ScenarioRows ==
    <<<<C_A1, C_B1, C_x>>, <<C_Spaces, C_B1, C_x>>, <<C_SpA1, C_B1, Null>>>>

P_in_q1  == <<"in", "q1.xlsx">>
P_old_q1 == <<"old", "q1.xlsx">>
P_in_q2  == <<"in", "q2.xlsx">>

\* A workbook whose data sheet comes behind a sheet the prefix does not find.
DataBook(columns, rows) ==
    Book(P_in_q1, TRUE, <<Sheet(S_Summary, <<H_Flag_old>>, <<>>),
                          Sheet(S_March, columns, Cut(rows, columns))>>)

\* Every resolving header row with every list of rows.
DataBooks ==
    [k \in 1..(Len(HeaderLists) * Len(RowLists)) |->
        DataBook(HeaderLists[((k - 1) \div Len(RowLists)) + 1],
                 RowLists[((k - 1) % Len(RowLists)) + 1])]

\* The end-to-end scenario with the headers as the specification writes them,
\* and with an underscore where column_a and column_b have one.
ScenarioBook ==
    Book(P_in_q1, TRUE,
         <<Sheet(S_March, <<H_ColumnSpA, H_ColumnSpB, H_Flag_Marker1>>, ScenarioRows)>>)

ScenarioBookUnderscore ==
    Book(P_in_q1, TRUE,
         <<Sheet(S_March, <<H_Column_A_Name, H_Column_B_code, H_Flag_Marker1>>,
                 ScenarioRows)>>)

\* The scenarios; the workbooks whose run raises: no column_b, a column_b
\* the engine cannot resolve, two sheets the prefix does not find, a path
\* with no file.
OtherBooks ==
    <<ScenarioBook, ScenarioBookUnderscore,
      DataBook(<<H_Column_A_Name, H_Flag_Marker1>>, ScenarioRows),
      DataBook(<<H_Column_A_Name, H_Column_b_dot1>>, ScenarioRows),
      Book(P_in_q1, TRUE, <<Sheet(S_Summary, <<H_Flag_old>>, <<>>),
                            Sheet(S_Sheet1, <<H_Column_A_Name>>, <<>>)>>),
      Book(P_in_q1, FALSE, <<>>)>>

\* The workbooks of the runs that exercise the history table: two files of
\* one name in two directories and a file of another name, with one or no
\* flagged row; a path with no file.
HistoryBook(path, flag) ==
    Book(path, TRUE,
         <<Sheet(S_March, <<H_Column_A_Name, H_Column_B_code, H_Flag_Marker1>>,
                 <<<<C_A1, C_B1, flag>>>>)>>)

HistoryBooks ==
    <<HistoryBook(P_in_q1, C_x), HistoryBook(P_in_q1, Null),
      HistoryBook(P_old_q1, C_x), HistoryBook(P_old_q1, Null),
      HistoryBook(P_in_q2, C_x), HistoryBook(P_in_q2, Null),
      Book(P_in_q2, FALSE, <<>>)>>

\* Every workbook, numbered: a run holds the number of its workbook.
BookList == DataBooks \o OtherBooks \o HistoryBooks

WorkbookIds == 1..(Len(DataBooks) + Len(OtherBooks))
HistoryBookIds == (Len(DataBooks) + Len(OtherBooks) + 1)..Len(BookList)

\* process_excel_ingest of every workbook, computed once.
Ingested == [i \in 1..Len(BookList) |-> process_excel_ingest(BookList[i])]

\* ----------------------------------------------------------------- state
VARIABLES
    clock,      \* the last minute datetime.now() returned
    inter,      \* table_hive_inter: its columns and rows
    history,    \* target_hive_table: its records, in the order appended
    pc,         \* where each run of process_excel stands
    run,        \* the locals of each run
    runs,       \* the runs started so far
    headers,    \* the resolvers alone: the headers given
    prefixes,   \*   the target prefixes given
    selected,   \*   what get_resilient_column_names returned
    flag_column, \*  what find_flag_columns_for_aggregation returned
    step        \*   which of the two has been called

vars == <<clock, inter, history, pc, run, runs,
          headers, prefixes, selected, flag_column, step>>

tables == <<clock, inter, history, pc, run, runs>>
resolver == <<headers, prefixes, selected, flag_column, step>>

Procs == {1, 2}

\* The locals of a run; wb is the number of its workbook in BookList, 0
\* before the first run.
NoRun ==
    [wb |-> 0, excel_file_name_only |-> "", processing_timestamp |-> 0,
     flagged_line_count |-> 0, latest_history_row |-> <<>>,
     read_failed |-> FALSE, last_record_changed |-> TRUE]

InitTables ==
    /\ clock = 0
    /\ inter = [columns |-> <<>>, rows |-> <<>>]
    /\ history = <<>>
    /\ pc = [p \in Procs |-> "idle"]
    /\ run = [p \in Procs |-> NoRun]
    /\ runs = 0

Init ==
    /\ InitTables
    /\ headers = <<>> /\ prefixes = <<>> /\ selected = <<>>
    /\ flag_column = None /\ step = "off"

\* process_excel is called with the path of a workbook: lines 125-195. A run
\* that raises ends there, before any table is written.
Start(p, books, most) ==
    /\ pc[p] \in {"idle", "done", "failed"}
    /\ runs < most
    /\ \E wb \in books :
         /\ run' = [run EXCEPT ![p] = [NoRun EXCEPT !.wb = wb]]
         /\ pc' = [pc EXCEPT ![p] =
                IF Ingested[wb].failure # "" THEN "failed" ELSE "write"]
    /\ runs' = runs + 1
    /\ UNCHANGED <<clock, inter, history, resolver>>

\* The same step leaving the intermediate table as it is.
WriteSkipped(p) ==
    /\ pc[p] = "write"
    /\ pc' = [pc EXCEPT ![p] = "read"]
    /\ run' = [run EXCEPT
           ![p].excel_file_name_only = basename(BookList[run[p].wb].path),
           ![p].flagged_line_count =
               flagged_line_count(Ingested[run[p].wb].df_spark,
                                  Ingested[run[p].wb].flag)]
    /\ UNCHANGED <<clock, inter, history, runs, resolver>>

\* lines 198-228: the intermediate table is overwritten; then the file name,
\* the timestamp (the clock read, never before an earlier reading) and the
\* count of the candidate record are computed.
WriteIntermediate(p) ==
    /\ pc[p] = "write"
    /\ inter' = saveAsTable_overwrite(inter,
                    Ingested[run[p].wb].df_for_hive_intermediate)
    /\ \E now \in clock..Min(clock + 1, MaxClock) :
         /\ clock' = now
         /\ run' = [run EXCEPT
                ![p].excel_file_name_only = basename(BookList[run[p].wb].path),
                ![p].processing_timestamp = now,
                ![p].flagged_line_count =
                    flagged_line_count(Ingested[run[p].wb].df_spark,
                                       Ingested[run[p].wb].flag)]
    /\ pc' = [pc EXCEPT ![p] = "read"]
    /\ UNCHANGED <<history, runs, resolver>>

\* lines 231-253: the latest record is read; a read that raises (the table
\* is missing or cannot be read) leaves last_record_changed at True.
ReadHistory(p) ==
    /\ pc[p] = "read"
    /\ \/ \E rows \in latest_history_rows(history) :
            run' = [run EXCEPT
                ![p].latest_history_row = rows,
                ![p].last_record_changed =
                    last_record_changed(rows, run[p].excel_file_name_only,
                                        run[p].flagged_line_count)]
       \/ run' = [run EXCEPT ![p].read_failed = TRUE,
                             ![p].last_record_changed = TRUE]
    /\ pc' = [pc EXCEPT ![p] = "gate"]
    /\ UNCHANGED <<clock, inter, history, runs, resolver>>

\* lines 255-261: the candidate record is appended, or the run ends without
\* writing.
AppendOrSkip(p) ==
    /\ pc[p] = "gate"
    /\ history' =
         IF run[p].last_record_changed
         THEN saveAsTable_append(history,
                  [filename |-> run[p].excel_file_name_only,
                   processing_timestamp |-> run[p].processing_timestamp,
                   flagged_line_count |-> run[p].flagged_line_count])
         ELSE history
    /\ pc' = [pc EXCEPT ![p] = "done"]
    /\ UNCHANGED <<clock, inter, run, runs, resolver>>

\* Runs one at a time, over every workbook.
Next ==
    \/ Start(1, WorkbookIds, MaxRuns)
    \/ WriteIntermediate(1)
    \/ ReadHistory(1)
    \/ AppendOrSkip(1)

Spec == Init /\ [][Next]_vars

\* Runs one at a time, over the workbooks that exercise the history table.
NextHistory ==
    \/ Start(1, HistoryBookIds, MaxHistoryRuns)
    \/ WriteIntermediate(1)
    \/ ReadHistory(1)
    \/ AppendOrSkip(1)

SpecHistory == Init /\ [][NextHistory]_vars

\* Two runs at once against the same tables.
NextConcurrent ==
    \E p \in Procs :
        \/ Start(p, HistoryBookIds, MaxHistoryRuns)
        \/ WriteIntermediate(p)
        \/ ReadHistory(p)
        \/ AppendOrSkip(p)

SpecConcurrent == Init /\ [][NextConcurrent]_vars

\* The resolvers alone, on every list of headers and of prefixes.
InitResolve ==
    /\ InitTables
    /\ headers \in SeqsUpTo(HeaderPool, MaxCols)
    /\ prefixes \in PrefixLists
    /\ selected = <<>>
    /\ flag_column = None
    /\ step = "input"

ResolveMany ==
    /\ step = "input"
    /\ selected' = get_resilient_column_names(headers, prefixes)
    /\ step' = "selected"
    /\ UNCHANGED <<tables, headers, prefixes, flag_column>>

FindFlag ==
    /\ step = "selected"
    /\ flag_column' = find_flag_columns_for_aggregation(headers)
    /\ step' = "done"
    /\ UNCHANGED <<tables, headers, prefixes, selected>>

NextResolve == ResolveMany \/ FindFlag

SpecResolve == InitResolve /\ [][NextResolve]_vars

\* ------------------------------------------------------------- properties
\* The first position of a list whose element passes a test, 0 for none.
FirstIndex(list, Test(_)) ==
    LET hit == {i \in 1..Len(list) : Test(list[i])}
    IN  IF hit = {} THEN 0 ELSE CHOOSE i \in hit : \A j \in hit : i <= j

\* The normalized key of a name starts with the normalized prefix.
HasPrefix(name, prefix) ==
    startswith(normalize_text_for_matching(name), normalize_text_for_matching(prefix))

\* The prefixes a header matches, and the first of them.
PrefixesOf(h) == {j \in 1..Len(prefixes) : HasPrefix(h, prefixes[j])}
FirstPrefixOf(h) == CHOOSE j \in PrefixesOf(h) : \A k \in PrefixesOf(h) : j <= k
FirstPlaceOf(h) == FirstIndex(headers, LAMBDA x : x = h)

\* C4, as claimed: get_resilient_column_names returns, for each target
\* prefix, only the first header in source order that matches it, so at most
\* one entry per target prefix.
C4_FirstMatchPerPrefix ==
    step # "input" =>
        /\ Len(selected) <= Len(prefixes)
        /\ \A k \in 1..Len(selected) :
              \E j \in 1..Len(prefixes) :
                 LET first == FirstIndex(headers, LAMBDA x : HasPrefix(x, prefixes[j]))
                 IN  first # 0 /\ selected[k] = headers[first]

\* C4, amended: get_resilient_column_names returns every header whose
\* normalized key starts with some normalized target prefix, each once, the
\* headers of an earlier prefix before those first matched by a later one
\* and the headers of one prefix in source order; it is empty when nothing
\* matches.
C4_EveryMatchInOrder ==
    step # "input" =>
        /\ \A k, l \in 1..Len(selected) : selected[k] = selected[l] => k = l
        /\ {selected[k] : k \in 1..Len(selected)} =
              {headers[i] : i \in {n \in 1..Len(headers) : PrefixesOf(headers[n]) # {}}}
        /\ \A k, l \in 1..Len(selected) :
              k < l =>
                 \/ FirstPrefixOf(selected[k]) < FirstPrefixOf(selected[l])
                 \/ /\ FirstPrefixOf(selected[k]) = FirstPrefixOf(selected[l])
                    /\ FirstPlaceOf(selected[k]) < FirstPlaceOf(selected[l])

\* Two headers match the one prefix and both are returned.
C4_Witness ==
    /\ step = "done"
    /\ prefixes = <<T_column_a>>
    /\ headers = <<H_Column_A_Name, H_COLUMN_A2>>
    /\ selected = <<H_Column_A_Name, H_COLUMN_A2>>

\* A header qualifies as the flag column: its normalized key starts with
\* "flag" and its looser normalization holds "marker1" or "marker2".
Qualifies(h) ==
    /\ startswith(normalize_text_for_matching(h), T_flag)
    /\ \/ contains(normalize_for_substring_search(h), T_marker1)
       \/ contains(normalize_for_substring_search(h), T_marker2)

\* C8: find_flag_columns_for_aggregation returns the first header in source
\* order that qualifies, and None when no header does; a later qualifying
\* header never replaces an earlier one.
C8_FirstQualifyingHeader ==
    step = "done" =>
        LET first == FirstIndex(headers, Qualifies)
        IN  flag_column = IF first = 0 THEN None ELSE headers[first]

\* Two qualifying headers: the first is returned.
C8_Witness ==
    /\ step = "done"
    /\ headers = <<H_Flag_Marker1X, H_Flag_Marker2Y>>
    /\ flag_column = H_Flag_Marker1X

\* The workbook of the run of p, and whether the run got past the write of
\* the intermediate table.
BookOf(p) == BookList[run[p].wb]
PastWrite(p) == pc[p] \in {"read", "gate", "done"}

\* C3, as claimed: the run over the scenario workbook (headers "Column A
\* Name", "Column B (code)", "Flag Marker1"; three rows, one with a blank
\* column_a) does not fail, writes two rows with the columns column_a,
\* column_b, flag, and offers the count of their non-null flags to the gate.
C3_ScenarioCompletes ==
    (run[1].wb # 0 /\ BookOf(1) = ScenarioBook) =>
        /\ pc[1] # "failed"
        /\ PastWrite(1) =>
              /\ inter.columns = <<"column_a", "column_b", "flag">>
              /\ Len(inter.rows) = 2
              /\ run[1].flagged_line_count =
                    Cardinality({i \in 1..2 : inter.rows[i][3] # Null})

\* C3, amended: over that workbook the run fails, column_a unresolved
\* ("columnaname" does not start with "column_a"); with the headers
\* "Column_A Name", "Column_B (code)", "Flag Marker1" and the same rows it
\* does not fail, writes the two rows with a column_a, under the columns
\* column_a, column_b, flag, and offers the count of their non-null flags.
C3_ScenarioWithUnderscores ==
    /\ (run[1].wb # 0 /\ BookOf(1) = ScenarioBook) => pc[1] = "failed"
    /\ (run[1].wb # 0 /\ BookOf(1) = ScenarioBookUnderscore) =>
          /\ pc[1] # "failed"
          /\ PastWrite(1) =>
                /\ inter = [columns |-> <<"column_a", "column_b", "flag">>,
                            rows |-> <<<<C_A1, C_B1, C_x>>, <<C_SpA1, C_B1, Null>>>>]
                /\ run[1].flagged_line_count =
                      Cardinality({i \in 1..2 : inter.rows[i][3] # Null})
                /\ run[1].flagged_line_count = 1

\* The run over the scenario with underscores has ended and two rows stand.
C3_Witness ==
    /\ run[1].wb # 0
    /\ BookOf(1) = ScenarioBookUnderscore
    /\ pc[1] = "done"
    /\ Len(inter.rows) = 2

\* What a workbook holds for a run, stated on the workbook: its first sheet
\* of the prefix, the first header of each required prefix, the first
\* qualifying flag header, and the rows whose column_a is not null and holds
\* a character other than a space.
SheetOf(wb) == wb.sheets[FirstIndex(wb.sheets, LAMBDA sh : HasPrefix(sh.name, T_sheet))]
PlaceOfA(wb) == FirstIndex(SheetOf(wb).columns, LAMBDA h : HasPrefix(h, T_column_a))
PlaceOfB(wb) == FirstIndex(SheetOf(wb).columns, LAMBDA h : HasPrefix(h, T_column_b))
PlaceOfFlag(wb) == FirstIndex(SheetOf(wb).columns, Qualifies)
ValidCell(cell) == cell # Null /\ \E i \in 1..Len(cell) : cell[i] # " "
ValidRows(wb) ==
    LET a == PlaceOfA(wb) IN SelectSeq(SheetOf(wb).rows, LAMBDA r : ValidCell(r[a]))

\* A workbook resolves: it is there, a sheet has the prefix, and a header
\* has each required prefix.
Resolves(wb) ==
    /\ wb.exists
    /\ FirstIndex(wb.sheets, LAMBDA sh : HasPrefix(sh.name, T_sheet)) # 0
    /\ PlaceOfA(wb) # 0
    /\ PlaceOfB(wb) # 0

Snapshot(wb) ==
    LET a == PlaceOfA(wb)
        b == PlaceOfB(wb)
        f == PlaceOfFlag(wb)
        valid == ValidRows(wb)
    IN  [columns |-> IF f # 0 THEN <<"column_a", "column_b", "flag">>
                     ELSE <<"column_a", "column_b">>,
         rows |-> [i \in 1..Len(valid) |->
                     IF f # 0 THEN <<valid[i][a], valid[i][b], valid[i][f]>>
                     ELSE <<valid[i][a], valid[i][b]>>]]

\* The valid rows of a workbook with a flag, 0 with no flag column.
FlaggedValidRows(wb) ==
    LET a == PlaceOfA(wb)
        f == PlaceOfFlag(wb)
        rows == SheetOf(wb).rows
    IN  IF f = 0 THEN 0
        ELSE Cardinality({i \in 1..Len(rows) :
                 ValidCell(rows[i][a]) /\ rows[i][f] # Null})

\* Both, of every workbook that resolves, by its number.
Resolving == {i \in 1..Len(BookList) : Resolves(BookList[i])}
Snapshots == [i \in Resolving |-> Snapshot(BookList[i])]
FlaggedCounts == [i \in Resolving |-> FlaggedValidRows(BookList[i])]

C7_CountOverValidRows ==
    PastWrite(1) =>
        /\ run[1].wb \in Resolving
        /\ run[1].flagged_line_count = FlaggedCounts[run[1].wb]
        /\ run[1].flagged_line_count >= 0

\* A run whose sheet has two flagged rows, one discarded by the filter,
\* offers a count of 1.
C7_Witness ==
    /\ pc[1] = "gate"
    /\ PlaceOfFlag(BookOf(1)) # 0
    /\ Cardinality({i \in 1..Len(SheetOf(BookOf(1)).rows) :
           SheetOf(BookOf(1)).rows[i][PlaceOfFlag(BookOf(1))] # Null}) = 2
    /\ run[1].flagged_line_count = 1

\* C10: a run that fails on its source, its sheet or a required column
\* leaves both tables as they were; and when a run appends a history record
\* the intermediate table holds what that same run wrote.
C10_FailureWritesNothing ==
    [][/\ (runs' # runs /\ pc'[1] = "failed") =>
              (inter' = inter /\ history' = history)
       /\ history' # history =>
              /\ pc[1] = "gate"
              /\ inter = Ingested[run[1].wb].df_for_hive_intermediate]_vars

\* A run has failed after one that wrote both tables, and both still hold
\* what that one wrote.
C10_Witness ==
    /\ runs = 2
    /\ pc[1] = "failed"
    /\ inter.rows # <<>>
    /\ Len(history) = 1

\* The candidate record of a run, and its two compared fields.
Candidate(p) ==
    [filename |-> run[p].excel_file_name_only,
     processing_timestamp |-> run[p].processing_timestamp,
     flagged_line_count |-> run[p].flagged_line_count]

Key(record) ==
    [filename |-> record.filename, flagged_line_count |-> record.flagged_line_count]

\* The run of p takes its last step, from the gate.
Gates(p) == pc[p] = "gate" /\ pc'[p] = "done"

\* C1: a run that reaches the gate appends exactly its candidate record,
\* unless a latest record was read and its filename and flagged_line_count
\* both equal the candidate's; then it leaves the history table as it was.
\* A failed read and an empty table give no latest record.
C1_GateDecision ==
    [][\A p \in Procs :
          Gates(p) =>
             /\ run[p].read_failed => run[p].latest_history_row = <<>>
             /\ IF /\ run[p].latest_history_row # <<>>
                   /\ run[p].latest_history_row[1] = Key(Candidate(p))
                THEN history' = history
                ELSE history' = Append(history, Candidate(p))]_vars

\* A run has read a latest record equal to its candidate and ended without
\* appending, after a run that appended on a read that found no record.
C1_Witness ==
    /\ pc[1] = "done"
    /\ run[1].latest_history_row # <<>>
    /\ ~run[1].last_record_changed
    /\ Len(history) = 1
    /\ runs = 2

IsPrefix(s, t) == Len(s) <= Len(t) /\ SubSeq(t, 1, Len(s)) = s

\* C5: the history table only grows, by one record at a time, and only in
\* the last step of a run: every record stays where it was, unmodified, and
\* a run, failed or not, adds none or one.
C5_AppendOnly ==
    [][/\ IsPrefix(history, history')
       /\ Len(history') <= Len(history) + 1
       /\ history' # history => \E p \in Procs : Gates(p)]_vars

\* Two records stand and a third run has failed.
C5_Witness ==
    /\ Len(history) = 2
    /\ \E p \in Procs : pc[p] = "failed"
    /\ runs = 3

\* C2: with the runs one at a time, the latest record the gate consults is
\* the record appended last, also when several records carry the same
\* minute.
C2_LatestIsLastAppended ==
    (pc[1] = "gate" /\ run[1].latest_history_row # <<>>) =>
        run[1].latest_history_row[1] = Key(history[Len(history)])

\* C9: with the runs one at a time, a run whose read of the history
\* succeeded never appends a record whose filename and flagged_line_count
\* are those of the record appended last, so no two consecutive records are
\* alike.
C9_SerializedNeverRepeats ==
    [][(/\ Gates(1)
        /\ ~run[1].read_failed
        /\ history # <<>>
        /\ Key(history[Len(history)]) = Key(Candidate(1)))
       => history' = history]_vars

\* Two runs at once have both read before either appended, and two
\* consecutive records are alike.
RaceState ==
    /\ Len(history) = 2
    /\ Key(history[1]) = Key(history[2])
    /\ \A p \in Procs : pc[p] = "done" /\ ~run[p].read_failed
                        /\ run[p].latest_history_row = <<>>

====
